---- MODULE Spec2Model ----
(***************************************************************************)
(* SearchableMixin (models.py): empty_search, query_index, search, and the *)
(* materialisation of the returned SQLAlchemy query against the Post       *)
(* table.  The search backend is the stub at models.py:60-63; the model    *)
(* lets it answer any (ids, total) pair, which is what a real backend      *)
(* (Elasticsearch, Solr, Whoosh) plugged in at that place would do.        *)
(***************************************************************************)
EXTENDS Integers, Sequences, FiniteSets, TLC

\* ---- bounds of the model ------------------------------------------------
MaxLen == 4
MaxTotal == 2
NumCallers == 2

\* identifiers the backend may rank, identifiers a Post row may carry
BackendIds == {1, 3, 5}
StoreIds == {0, 1, 3, 5}
Totals == (0 - 1)..MaxTotal
\* (page, per_page) argument pairs; <<1, 20>> are the defaults
PageArgs == {<<1, 20>>, <<2, 1>>}

SeqsUpTo(S, n) == UNION {[1..k -> S] : k \in 0..n}
Range(s) == {s[i] : i \in 1..Len(s)}

\* backend answers of the sequential specification
Responses == [ids : SeqsUpTo(BackendIds, MaxLen), total : Totals]
\* backend answers of the concurrent specification
ConcResponses == [ids : {<<>>, <<1>>, <<3, 1>>, <<1, 3, 1>>}, total : {0, 2}]

VARIABLES store, pc, op, args, backend, ids, total, result, rows
vars == <<store, pc, op, args, backend, ids, total, result, rows>>

\* ---- SQLAlchemy query objects --------------------------------------------
\* a Query is [where, ids, order]: where is "none" (no filter), "false"
\* (filter(False), WHERE 0 = 1) or "in" (id IN ids); order is the CASE
\* expression of order_by as a sequence of <<when, then>> pairs, <<>> if none
NoQuery == [where |-> "none", ids |-> <<>>, order |-> <<>>]
NoResult == [query |-> NoQuery, total |-> 0]
NoBackend == [ids |-> <<>>, total |-> 0]

\* d[k] = v on a Python dict kept as a sequence of <<key, value>> pairs:
\* an existing key keeps its place and takes the new value
DictSet(d, k, v) ==
    IF \E i \in 1..Len(d) : d[i][1] = k
    THEN [i \in 1..Len(d) |-> IF d[i][1] = k THEN <<k, v>> ELSE d[i]]
    ELSE Append(d, <<k, v>>)

\* {id_: idx for idx, id_ in enumerate(ids)} over the first n elements
RECURSIVE EnumDict(_, _)
EnumDict(s, n) ==
    IF n = 0 THEN <<>> ELSE DictSet(EnumDict(s, n - 1), s[n], n - 1)

\* sql_case(whens, value=cls.id)
sql_case(s) == EnumDict(s, Len(s))

\* value of CASE id WHEN .. THEN .. END for a row; no branch gives NULL,
\* which sorts before every number (-1 here)
CaseValue(order, r) ==
    IF \E i \in 1..Len(order) : order[i][1] = r
    THEN order[CHOOSE i \in 1..Len(order) :
                  order[i][1] = r /\ \A j \in 1..(i - 1) : order[j][1] # r][2]
    ELSE 0 - 1

Matches(q, r) ==
    CASE q.where = "false" -> FALSE
      [] q.where = "in" -> r \in Range(q.ids)
      [] OTHER -> TRUE

\* rows before(r1, r2) in the result: by CASE value, then by primary key
Before(q, r1, r2) ==
    LET k1 == CaseValue(q.order, r1)
        k2 == CaseValue(q.order, r2)
    IN  k1 < k2 \/ (k1 = k2 /\ r1 <= r2)

RECURSIVE OrderRows(_, _)
OrderRows(q, S) ==
    IF S = {} THEN <<>>
    ELSE LET m == CHOOSE x \in S : \A y \in S : Before(q, x, y)
         IN  <<m>> \o OrderRows(q, S \ {m})

\* query.all() against the Post table holding the rows with ids in table
all(q, table) == OrderRows(q, {r \in table : Matches(q, r)})

\* ---- SearchableMixin -----------------------------------------------------
empty_search_id0 == [where |-> "in", ids |-> <<0>>, order |-> <<>>]
empty_search == [where |-> "false", ids |-> <<>>, order |-> <<>>]

query_index_unordered(b, page, per_page) ==
    IF b.ids = <<>>
    THEN [query |-> empty_search, total |-> b.total]
    ELSE [query |-> [where |-> "in", ids |-> b.ids, order |-> <<>>],
          total |-> b.total]
query_index(b, page, per_page) ==
    IF b.ids = <<>>
    THEN [query |-> empty_search, total |-> b.total]
    ELSE [query |-> [where |-> "in", ids |-> b.ids, order |-> sql_case(b.ids)],
          total |-> b.total]

search_paginated(b, page, per_page) ==
    LET r == query_index(b, page, per_page)
    IN  [query |-> r.query,
         total |-> IF r.total > per_page THEN per_page ELSE r.total]
search(b, page, per_page) ==
    LET r == query_index(b, page, per_page)
    IN  [query |-> r.query, total |-> r.total]

\* ---- state ----------------------------------------------------------------
\* store: ids of the rows of the post table.  Per caller: pc (position),
\* op (entry point called), args (page, per_page), backend (what the
\* backend answered to this call), ids/total (the locals of query_index),
\* result (the returned (query, total)), rows (query.all())
Callers == DOMAIN pc

InitCallers(C) ==
    /\ store = {}
    /\ pc = [c \in C |-> "idle"]
    /\ op = [c \in C |-> "none"]
    /\ args = [c \in C |-> <<1, 20>>]
    /\ backend = [c \in C |-> NoBackend]
    /\ ids = [c \in C |-> <<>>]
    /\ total = [c \in C |-> 0]
    /\ result = [c \in C |-> NoResult]
    /\ rows = [c \in C |-> <<>>]

Init == InitCallers({1})
InitConc == InitCallers(1..NumCallers)

AllIdle == \A c \in Callers : pc[c] = "idle"

\* ---- the test fixtures: rows added before a search, deleted afterwards ----
AddPost(i) ==
    /\ AllIdle
    /\ i \notin store
    /\ store' = store \cup {i}
    /\ UNCHANGED <<pc, op, args, backend, ids, total, result, rows>>

Cleanup ==
    /\ AllIdle
    /\ store # {}
    /\ store' = {}
    /\ UNCHANGED <<pc, op, args, backend, ids, total, result, rows>>

\* ---- whole calls (sequential specification) --------------------------------
Search(c) ==
    /\ pc[c] = "idle"
    /\ \E b \in Responses, pa \in PageArgs :
          /\ op' = [op EXCEPT ![c] = "search"]
          /\ args' = [args EXCEPT ![c] = pa]
          /\ backend' = [backend EXCEPT ![c] = b]
          /\ ids' = [ids EXCEPT ![c] = b.ids]
          /\ total' = [total EXCEPT ![c] = b.total]
          /\ result' = [result EXCEPT ![c] = search(b, pa[1], pa[2])]
    /\ pc' = [pc EXCEPT ![c] = "returned"]
    /\ UNCHANGED <<store, rows>>

QueryIndex(c) ==
    /\ pc[c] = "idle"
    /\ \E b \in Responses, pa \in PageArgs :
          /\ op' = [op EXCEPT ![c] = "query_index"]
          /\ args' = [args EXCEPT ![c] = pa]
          /\ backend' = [backend EXCEPT ![c] = b]
          /\ ids' = [ids EXCEPT ![c] = b.ids]
          /\ total' = [total EXCEPT ![c] = b.total]
          /\ result' = [result EXCEPT ![c] = query_index(b, pa[1], pa[2])]
    /\ pc' = [pc EXCEPT ![c] = "returned"]
    /\ UNCHANGED <<store, rows>>

EmptySearch(c) ==
    /\ pc[c] = "idle"
    /\ op' = [op EXCEPT ![c] = "empty_search"]
    /\ result' = [result EXCEPT ![c] = [query |-> empty_search, total |-> 0]]
    /\ pc' = [pc EXCEPT ![c] = "returned"]
    /\ UNCHANGED <<store, args, backend, ids, total, rows>>

\* results = query.all()
All(c) ==
    /\ pc[c] = "returned"
    /\ rows' = [rows EXCEPT ![c] = all(result[c].query, store)]
    /\ pc' = [pc EXCEPT ![c] = "fetched"]
    /\ UNCHANGED <<store, op, args, backend, ids, total, result>>

\* the caller drops the result
Finish(c) ==
    /\ pc[c] \in {"returned", "fetched"}
    /\ pc' = [pc EXCEPT ![c] = "idle"]
    /\ op' = [op EXCEPT ![c] = "none"]
    /\ args' = [args EXCEPT ![c] = <<1, 20>>]
    /\ backend' = [backend EXCEPT ![c] = NoBackend]
    /\ ids' = [ids EXCEPT ![c] = <<>>]
    /\ total' = [total EXCEPT ![c] = 0]
    /\ result' = [result EXCEPT ![c] = NoResult]
    /\ rows' = [rows EXCEPT ![c] = <<>>]
    /\ UNCHANGED store

Next ==
    \/ \E i \in StoreIds : AddPost(i)
    \/ Cleanup
    \/ \E c \in Callers : Search(c)
    \/ \E c \in Callers : QueryIndex(c)
    \/ \E c \in Callers : EmptySearch(c)
    \/ \E c \in Callers : All(c)
    \/ \E c \in Callers : Finish(c)

Spec == Init /\ [][Next]_vars

\* ---- the same calls, statement by statement (concurrent specification) -----
\* the names ids and total inside query_index are locals of the running call
LocalsShared(c) ==
    LET d == CHOOSE d \in Callers :
                 /\ pc[d] # "idle"
                 /\ \A e \in Callers : pc[e] # "idle" => d <= e
    IN  [ids |-> ids[d], total |-> total[d]]
Locals(c) == [ids |-> ids[c], total |-> total[c]]

\* entry into search or query_index up to the backend's answer
BackendReturns(c) ==
    /\ pc[c] = "idle"
    /\ \E b \in ConcResponses, o \in {"search", "query_index"} :
          /\ op' = [op EXCEPT ![c] = o]
          /\ backend' = [backend EXCEPT ![c] = b]
          /\ ids' = [ids EXCEPT ![c] = b.ids]
          /\ total' = [total EXCEPT ![c] = b.total]
    /\ pc' = [pc EXCEPT ![c] = "backend"]
    /\ UNCHANGED <<store, args, result, rows>>

\* the branch on ids and the return of query_index
QueryIndexReturns(c) ==
    /\ pc[c] = "backend"
    /\ result' = [result EXCEPT
                    ![c] = query_index(Locals(c), args[c][1], args[c][2])]
    /\ pc' = [pc EXCEPT ![c] = IF op[c] = "search" THEN "inner" ELSE "returned"]
    /\ UNCHANGED <<store, op, args, backend, ids, total, rows>>

\* search unpacks what query_index returned and returns it
SearchReturns(c) ==
    /\ pc[c] = "inner"
    /\ result' = [result EXCEPT
                    ![c] = [query |-> result[c].query, total |-> result[c].total]]
    /\ pc' = [pc EXCEPT ![c] = "returned"]
    /\ UNCHANGED <<store, op, args, backend, ids, total, rows>>

NextConc ==
    \/ \E i \in {1, 3} : AddPost(i)
    \/ \E c \in Callers : BackendReturns(c)
    \/ \E c \in Callers : QueryIndexReturns(c)
    \/ \E c \in Callers : SearchReturns(c)

SpecConc == InitConc /\ [][NextConc]_vars

\* ---- vocabulary of the properties ------------------------------------------
\* a call of search or query_index that has returned
Returned(c) ==
    pc[c] \in {"returned", "fetched"} /\ op[c] \in {"search", "query_index"}
Fetched(c) == pc[c] = "fetched" /\ op[c] \in {"search", "query_index"}

IsEmpty(q) == q.where = "false"
Selected(q) == IF q.where = "in" THEN Range(q.ids) ELSE {}

\* s without the later repeats of an element
RECURSIVE Dedup(_)
Dedup(s) ==
    IF s = <<>> THEN <<>>
    ELSE LET front == Dedup(SubSeq(s, 1, Len(s) - 1))
             last == s[Len(s)]
         IN  IF last \in Range(front) THEN front ELSE Append(front, last)

\* the subsequence of s of the elements in S
RECURSIVE Restrict(_, _)
Restrict(s, S) ==
    IF s = <<>> THEN <<>>
    ELSE LET front == Restrict(SubSeq(s, 1, Len(s) - 1), S)
             last == s[Len(s)]
         IN  IF last \in S THEN Append(front, last) ELSE front

NoDuplicates(s) == Cardinality(Range(s)) = Len(s)

\* what a caller observes of a result: the identifiers in rank order (all of
\* them present in the table), the total, and whether it is the empty query
Observed(r) ==
    <<all(r.query, Selected(r.query)), r.total, IsEmpty(r.query)>>

\* ---- C1 ----------------------------------------------------------------------
\* C1: for every backend answer, the returned query is the explicit empty
\* query iff it selects no identifier iff the returned total is 0.
C1_ThreeWayEquivalence ==
    \A c \in Callers : Returned(c) =>
        /\ IsEmpty(result[c].query) <=> (Selected(result[c].query) = {})
        /\ (Selected(result[c].query) = {}) <=> (result[c].total = 0)

\* ---- C2 ----------------------------------------------------------------------
\* C2: the returned total is the number of distinct identifiers of ids,
\* whatever total the backend reported.
C2_TotalIsDistinctCount ==
    \A c \in Callers : Returned(c) =>
        result[c].total = Cardinality(Range(backend[c].ids))

\* ---- C3 ----------------------------------------------------------------------
\* C3: with an empty ids list and a reported total t >= 0 the call returns
\* what it returns for ([], 0): the explicit empty query with total 0.
C3_EmptyIdsIgnoreReportedTotal ==
    \A c \in Callers :
        (Returned(c) /\ backend[c].ids = <<>> /\ backend[c].total >= 0) =>
            /\ result[c] = query_index([ids |-> <<>>, total |-> 0],
                                       args[c][1], args[c][2])
            /\ IsEmpty(result[c].query)
            /\ result[c].total = 0

\* ---- C4 ----------------------------------------------------------------------
\* the query of a call that is meant to match nothing
EmptyCase(c) ==
    \/ op[c] = "empty_search"
    \/ op[c] \in {"search", "query_index"} /\ backend[c].ids = <<>>

\* C4: the query returned by empty_search, and by search/query_index on an
\* empty ids list, yields no row from any content of the post table (a row
\* with id 0 included) and is not a match on an identifier.
C4_EmptyQueryMatchesNothing ==
    \A c \in Callers :
        /\ (pc[c] \in {"returned", "fetched"} /\ EmptyCase(c)) =>
              /\ result[c].query.where # "in"
              /\ \A table \in SUBSET StoreIds : all(result[c].query, table) = <<>>
        /\ (pc[c] = "fetched" /\ EmptyCase(c)) => rows[c] = <<>>

C4_Witness ==
    \E c \in Callers :
        /\ pc[c] = "fetched"
        /\ op[c] = "empty_search"
        /\ 0 \in store
        /\ rows[c] = <<>>

\* ---- C5 ----------------------------------------------------------------------
\* C5: with repeated identifiers in ids, the rows come out once each, in the
\* order of the first occurrences: ids without its later repeats.
C5_FirstOccurrenceOrder ==
    \A c \in Callers : (Fetched(c) /\ backend[c].ids # <<>>) =>
        rows[c] = Restrict(Dedup(backend[c].ids), store)

\* ---- C6 ----------------------------------------------------------------------
\* C6: for a non-empty ids list without duplicates the rows come out in the
\* order of ids, the identifiers without a row left out.
C6_OrderPreserved ==
    \A c \in Callers :
        (Fetched(c) /\ backend[c].ids # <<>> /\ NoDuplicates(backend[c].ids)) =>
            rows[c] = Restrict(backend[c].ids, store)

C6_Witness ==
    \E c \in Callers :
        /\ Fetched(c)
        /\ backend[c].ids = <<5, 1, 3>>
        /\ store = {0, 3, 5}
        /\ rows[c] = <<5, 3>>

\* ---- C7 ----------------------------------------------------------------------
\* C7: every backend answer, a negative reported total included, gives a
\* result whose total is a non-negative integer.
C7_TotalNonNegative ==
    \A c \in Callers : Returned(c) =>
        /\ result[c].query.where \in {"false", "in"}
        /\ result[c].total \in Nat

\* ---- C8 ----------------------------------------------------------------------
\* C8: the result for (ids, t) is the result for (dedup(ids), len(dedup(ids))):
\* same identifiers in the same order, same total, same emptiness.
C8_Idempotent ==
    \A c \in Callers : Returned(c) =>
        LET d == Dedup(backend[c].ids)
        IN  Observed(result[c]) =
            Observed(query_index([ids |-> d, total |-> Len(d)],
                                 args[c][1], args[c][2]))

C10_CallsIndependent ==
    [][\A c \in Callers :
          /\ (pc'[c] # pc[c]) =>
                /\ store' = store
                /\ \A d \in Callers \ {c} :
                      /\ ids'[d] = ids[d]
                      /\ total'[d] = total[d]
                      /\ result'[d] = result[d]
          /\ (pc'[c] = "returned" /\ pc[c] # "returned") =>
                result'[c] = (IF op'[c] = "search"
                              THEN search(backend'[c], args'[c][1], args'[c][2])
                              ELSE query_index(backend'[c], args'[c][1],
                                               args'[c][2]))]_vars

C10_Witness ==
    \E c, d \in Callers :
        /\ c # d
        /\ pc[c] = "returned"
        /\ pc[d] \in {"backend", "inner"}
        /\ backend[c] # backend[d]
        /\ backend[c].ids = <<1, 3, 1>>
        /\ store # {}

====
